---- MODULE Spec2Model ----
(***************************************************************************)
(* Model of feldges/data_extractor (src/main.py): the upload and extract   *)
(* request handlers, the threaded extraction worker, the status query that *)
(* is derived from the presence of the pickle file, the snapshot loader,   *)
(* and the rendering of FinancialData as a year-indexed table.             *)
(***************************************************************************)
EXTENDS Integers, Sequences, FiniteSets, TLC

VARIABLES
    temp,          \* data/temp : filename -> document content
    pdf,           \* data/pdf  : company_id -> document content
    pkl,           \* data/pkl  : company_id -> bytes on disk (sequence of pickle frames)
    minted,        \* the values uuid.uuid4() has returned so far
    jobs,          \* the threads started by @threaded extract_company_data, in start order
    responding,    \* company_id of the handle_extraction call between dispatch and return
    out,           \* the last response a request handler returned
    seenComplete,  \* identifiers for which a response before out was COMPLETE
    fin,           \* the FinancialData handed to FinancialData.__ft__
    table          \* the table FinancialData.__ft__ returned for fin

vars == <<temp, pdf, pkl, minted, jobs, responding, out, seenComplete, fin, table>>

-----------------------------------------------------------------------------
(* Bounds *)

NumIds == 2        \* size of the modelled identifier space
MaxJobs == 2       \* submissions that start a job
MaxPoints == 3     \* length of FinancialData.data handed to the renderer
NumYears == 2      \* distinct years the points are drawn from

Ids == 1..NumIds
Files == {"a.pdf"}
NoFilename == ""
Docs == {"pdf", "garbage"}
readable(doc) == doc = "pdf"

None == {}
Some(v) == {v}
the(opt) == CHOOSE v \in opt : TRUE

-----------------------------------------------------------------------------
(* Data models *)

Grades == {"high", "medium", "low"}
PointTypes == {"actual", "forecast"}

Has(r, keys) == keys \subseteq DOMAIN r

ExtractedData_lenient(f) == Has(f, {"pages"})

ExtractedData(f) ==
    /\ Has(f, {"pages", "quality"})
    /\ f.quality \in Grades

ScalarFact(f) == ExtractedData(f) /\ Has(f, {"value"})

Employee(e) == ExtractedData(e) /\ Has(e, {"name", "role", "description"})

TopManagement(t) ==
    /\ Has(t, {"employees", "pages"})
    /\ \A i \in 1..Len(t.employees) : Employee(t.employees[i])

FinancialMetrics(p) ==
    /\ Has(p, {"year", "type"})
    /\ p.type \in PointTypes

\* the validated point: the optional metrics default to None
FinancialMetrics_parse(p) ==
    [year    |-> p.year,
     revenue |-> IF "revenue" \in DOMAIN p THEN p.revenue ELSE None,
     ebitda  |-> IF "ebitda" \in DOMAIN p THEN p.ebitda ELSE None,
     margin  |-> IF "margin" \in DOMAIN p THEN p.margin ELSE None,
     debt    |-> IF "debt" \in DOMAIN p THEN p.debt ELSE None,
     type    |-> p.type]

FinancialData(f) ==
    /\ ExtractedData(f)
    /\ Has(f, {"data", "currency"})
    /\ \A i \in 1..Len(f.data) : FinancialMetrics(f.data[i])

FinancialData_parse(f) ==
    [pages    |-> f.pages,
     quality  |-> f.quality,
     data     |-> [i \in 1..Len(f.data) |-> FinancialMetrics_parse(f.data[i])],
     currency |-> f.currency]

Financials(f) == Has(f, {"financial_data"}) /\ FinancialData(f.financial_data)

ScalarFields == {"name", "description", "strategy", "business_model",
                 "market", "clients", "products"}

CompanyBase(r) ==
    /\ Has(r, ScalarFields \cup {"top_management", "financials"})
    /\ \A k \in ScalarFields : ScalarFact(r[k])
    /\ TopManagement(r.top_management)
    /\ Financials(r.financials)

\* response.parsed: the validated CompanyBase, or None when the text of the
\* response does not validate against the response schema
parsed(raw) ==
    IF CompanyBase(raw)
    THEN Some([raw EXCEPT !.financials =
                 [financial_data |-> FinancialData_parse(raw.financials.financial_data)]])
    ELSE None

\* Company(id=company_id, **company_base.model_dump())
Company(company_id, base) == [id |-> company_id] @@ base

-----------------------------------------------------------------------------
(* Responses of the external capability *)

Fact(v) == [value |-> v, pages |-> <<0>>, quality |-> "high"]

Boss == [name |-> "Ada", role |-> "CEO", description |-> "founder",
         pages |-> <<3>>, quality |-> "medium"]

FinGood ==
    [pages |-> <<7>>, quality |-> "high", currency |-> "EUR m",
     data |-> << [year |-> 2023, revenue |-> Some(100), type |-> "actual"],
                 [year |-> 2023, revenue |-> Some(110), ebitda |-> Some(20),
                  type |-> "forecast"] >>]

RespGood ==
    [name |-> Fact("Acme"), description |-> Fact("d"), strategy |-> Fact("s"),
     business_model |-> Fact("b"), market |-> Fact("m"), clients |-> Fact("c"),
     products |-> Fact("p"),
     top_management |-> [employees |-> <<Boss>>, pages |-> <<3>>],
     financials |-> [financial_data |-> FinGood]]

RespOther == [RespGood EXCEPT !.name = Fact("Bolt")]

\* a field whose required quality grade is absent
RespNoQuality == [RespGood EXCEPT !.description = [value |-> "d", pages |-> <<1>>]]

\* an enum value outside {high, medium, low}
RespBadEnum ==
    [RespGood EXCEPT !.market = [value |-> "m", pages |-> <<1>>, quality |-> "excellent"]]

Responses == {RespGood, RespOther, RespNoQuality, RespBadEnum}

-----------------------------------------------------------------------------
(* pickle *)

pickle_dumps(obj) ==
    << [op |-> "OBJ",  arg |-> {obj}],
       [op |-> "STOP", arg |-> {}] >>

\* pickle.load: the object, or EOFError on a truncated stream
pickle_load(bytes) ==
    IF Len(bytes) = 2 /\ bytes[2].op = "STOP"
    THEN [ok |-> TRUE, value |-> bytes[1].arg, error |-> "none"]
    ELSE [ok |-> FALSE, value |-> {}, error |-> "EOFError"]

path_exists(dir, name) == name \in DOMAIN dir

remove(dir, name) == [n \in (DOMAIN dir) \ {name} |-> dir[n]]

write(dir, name, content) == [n \in (DOMAIN dir) \cup {name} |->
                                 IF n = name THEN content ELSE dir[n]]

-----------------------------------------------------------------------------
(* FinancialData.__ft__ *)

Digit(d) ==
    CASE d = 0 -> "0" [] d = 1 -> "1" [] d = 2 -> "2" [] d = 3 -> "3"
      [] d = 4 -> "4" [] d = 5 -> "5" [] d = 6 -> "6" [] d = 7 -> "7"
      [] d = 8 -> "8" [] d = 9 -> "9"

RECURSIVE str_int(_)
str_int(n) == IF n < 10 THEN Digit(n) ELSE str_int(n \div 10) \o Digit(n % 10)

\* str() of a float with an integral value
str_float(v) == str_int(v) \o ".0"

Min(S) == CHOOSE m \in S : \A n \in S : m <= n

RECURSIVE sorted(_)
sorted(S) == IF S = {} THEN <<>> ELSE <<Min(S)>> \o sorted(S \ {Min(S)})

RECURSIVE next_cell_truthy(_, _, _, _)
next_cell_truthy(data, y, m, i) ==
    IF i > Len(data) THEN "-"
    ELSE IF data[i].year = y /\ data[i][m] # None /\ the(data[i][m]) # 0
         THEN str_float(the(data[i][m]))
    ELSE next_cell_truthy(data, y, m, i + 1)

\* next((str(d.m) for d in data if d.year == y and d.m is not None), "-"),
\* scanning data from index i on
RECURSIVE next_cell(_, _, _, _)
next_cell(data, y, m, i) ==
    IF i > Len(data) THEN "-"
    ELSE IF data[i].year = y /\ data[i][m] # None THEN str_float(the(data[i][m]))
    ELSE next_cell(data, y, m, i + 1)

row(data, years, m) == [k \in 1..Len(years) |-> next_cell(data, years[k], m, 1)]

FinancialData_ft(self) ==
    LET years == sorted({self.data[i].year : i \in 1..Len(self.data)})
    IN  [years   |-> years,
         header  |-> [k \in 1..Len(years) |->
                        str_int(years[k]) \o
                        (IF \E i \in 1..Len(self.data) :
                               self.data[i].type = "forecast" /\ self.data[i].year = years[k]
                         THEN "E" ELSE "")],
         revenue |-> row(self.data, years, "revenue"),
         ebitda  |-> row(self.data, years, "ebitda"),
         margin  |-> row(self.data, years, "margin"),
         debt    |-> row(self.data, years, "debt"),
         caption |-> "All values in " \o self.currency]

-----------------------------------------------------------------------------
(* Snapshot store reads *)

extract_company_data_status_inverted(company_id) ==
    IF path_exists(pkl, company_id) THEN "RUNNING" ELSE "COMPLETE"

extract_company_data_status_pdf(company_id) ==
    IF path_exists(pdf, company_id) THEN "COMPLETE" ELSE "RUNNING"

extract_company_data_status(company_id) ==
    IF path_exists(pkl, company_id) THEN "COMPLETE" ELSE "RUNNING"

\* company(company_id): open + pickle.load
company(company_id) ==
    IF ~path_exists(pkl, company_id)
    THEN [ok |-> FALSE, value |-> {}, error |-> "FileNotFoundError"]
    ELSE pickle_load(pkl[company_id])

\* get_company_list(): every *.pkl file is loaded; the first failure propagates
get_company_list ==
    IF \E i \in DOMAIN pkl : ~pickle_load(pkl[i]).ok
    THEN [ok |-> FALSE, error |-> "EOFError"]
    ELSE [ok |-> TRUE, error |-> "none"]

response(route, company_id, body) ==
    [route |-> route, id |-> company_id, body |-> body, value |-> {}, table |-> {}]

NoOut == response("none", 0, "none")

is_status(r) == r.route \in {"status", "extract"} /\ r.body \in {"RUNNING", "COMPLETE"}

\* a handler returns r; the response it replaces is folded into the history
respond(r) ==
    /\ out' = r
    /\ seenComplete' = IF is_status(out) /\ out.body = "COMPLETE"
                       THEN seenComplete \cup {out.id} ELSE seenComplete
NoFin == [pages |-> <<>>, quality |-> "low", data |-> <<>>, currency |-> "USD"]

-----------------------------------------------------------------------------
(* Request handlers *)

\* POST /upload-file
handle_file_select(filename, content) ==
    /\ responding = {}
    /\ IF filename = NoFilename
       THEN /\ respond(response("upload-file", 0, "No file selected"))
            /\ temp' = temp
       ELSE /\ temp' = write(temp, filename, content)
            /\ respond(response("upload-file", 0, "Selected file"))
    /\ UNCHANGED <<pdf, pkl, minted, jobs, responding, fin, table>>

uuid4_reused == Ids

\* uuid.uuid4(): a value not returned before
uuid4 == Ids \ minted

file_found_unchecked(filename) == TRUE

\* os.path.exists(f"data/temp/{filename}")
file_found(filename) == path_exists(temp, filename)

thread_inline(company_id) ==
    [company_id |-> company_id, pc |-> "generate", raw |-> {}, parsed |-> None]

\* @threaded: a new thread at the first statement of extract_company_data
thread(company_id) ==
    [company_id |-> company_id, pc |-> "upload", raw |-> {}, parsed |-> None]

\* POST /extract, up to the start of the worker thread
handle_extraction(filename) ==
    /\ responding = {}
    /\ IF filename = NoFilename
       THEN /\ respond(response("extract", 0, "Error: No file specified"))
            /\ UNCHANGED <<temp, pdf, minted, jobs, responding>>
       ELSE IF ~file_found(filename)
       THEN /\ respond(response("extract", 0, "Error: File not found"))
            /\ UNCHANGED <<temp, pdf, minted, jobs, responding>>
       ELSE /\ Len(jobs) < MaxJobs
            /\ \E company_id \in uuid4 :
                 /\ minted' = minted \cup {company_id}
                 /\ IF path_exists(temp, filename)
                    THEN /\ pdf' = write(pdf, company_id, temp[filename])
                         /\ temp' = remove(temp, filename)
                         /\ jobs' = Append(jobs, thread(company_id))
                         /\ responding' = {company_id}
                         /\ UNCHANGED <<out, seenComplete>>
                    ELSE \* os.rename raises FileNotFoundError
                         /\ respond(response("extract", 0, "500"))
                         /\ UNCHANGED <<temp, pdf, jobs, responding>>
    /\ UNCHANGED <<pkl, fin, table>>

\* POST /extract: return extract_company_data_status(company_id)
handle_extraction_return ==
    /\ responding # {}
    /\ respond(response("extract", the(responding),
                         extract_company_data_status(the(responding))))
    /\ responding' = {}
    /\ UNCHANGED <<temp, pdf, pkl, minted, jobs, fin, table>>

\* GET /extract-company-data/{company_id}
get_status(company_id) ==
    /\ respond(response("status", company_id, extract_company_data_status(company_id)))
    /\ UNCHANGED <<temp, pdf, pkl, minted, jobs, responding, fin, table>>

\* GET /company/{company_id}: nav() lists every company, then company(company_id)
company_page(company_id) ==
    /\ respond(IF ~get_company_list.ok
               THEN response("company", company_id, get_company_list.error)
               ELSE LET c == company(company_id)
                    IN  IF ~c.ok THEN response("company", company_id, c.error)
                        ELSE [route |-> "company", id |-> company_id, body |-> "Company",
                              value |-> c.value,
                              table |-> {FinancialData_ft(
                                           the(c.value).financials.financial_data)}])
    /\ UNCHANGED <<temp, pdf, pkl, minted, jobs, responding, fin, table>>

-----------------------------------------------------------------------------
(* extract_company_data, one action per statement that touches shared state *)

Threads == 1..Len(jobs)

goto(j, pc) == jobs' = [jobs EXCEPT ![j].pc = pc]

\* doc = client.files.upload(file=file_path)
extract_upload(j) ==
    /\ jobs[j].pc = "upload"
    /\ \E ok \in BOOLEAN : goto(j, IF ok THEN "generate" ELSE "failed")
    /\ UNCHANGED <<temp, pdf, pkl, minted, responding, out, seenComplete, fin, table>>

\* response = client.models.generate_content(...): the call raises, or returns
\* a response whose .parsed is the validated CompanyBase or None
extract_generate(j) ==
    /\ jobs[j].pc = "generate"
    /\ \/ goto(j, "failed")
       \/ \E raw \in Responses :
            jobs' = [jobs EXCEPT ![j].pc = "construct", ![j].raw = {raw},
                                 ![j].parsed = parsed(raw)]
    /\ UNCHANGED <<temp, pdf, pkl, minted, responding, out, seenComplete, fin, table>>

extract_construct_open_first(j) ==
    /\ jobs[j].pc = "construct"
    /\ pkl' = write(pkl, jobs[j].company_id, <<>>)
    /\ goto(j, IF jobs[j].parsed = None THEN "failed" ELSE "dump")
    /\ UNCHANGED <<temp, pdf, minted, responding, out, seenComplete, fin, table>>

\* company_base = response.parsed
\* company = Company(id=company_id, **company_base.model_dump())
extract_construct(j) ==
    /\ jobs[j].pc = "construct"
    /\ goto(j, IF jobs[j].parsed = None THEN "failed" ELSE "open")
    /\ UNCHANGED <<temp, pdf, pkl, minted, responding, out, seenComplete, fin, table>>

\* the local variable company of thread j
company_of(j) == Company(jobs[j].company_id, the(jobs[j].parsed))

\* os.makedirs("data/pkl", exist_ok=True); open(filename_pkl, "wb"):
\* the file is created, or truncated, and is empty
extract_open(j) ==
    /\ jobs[j].pc = "open"
    /\ pkl' = write(pkl, jobs[j].company_id, <<>>)
    /\ goto(j, "dump")
    /\ UNCHANGED <<temp, pdf, minted, responding, out, seenComplete, fin, table>>

\* pickle.dump(company, f): the frames go to the buffered writer, which may
\* have flushed any proper prefix of them to the file
extract_dump(j) ==
    /\ jobs[j].pc = "dump"
    /\ \E k \in 0..(Len(pickle_dumps(company_of(j))) - 1) :
         pkl' = write(pkl, jobs[j].company_id, SubSeq(pickle_dumps(company_of(j)), 1, k))
    /\ goto(j, "close")
    /\ UNCHANGED <<temp, pdf, minted, responding, out, seenComplete, fin, table>>

extract_close_unflushed(j) ==
    /\ jobs[j].pc = "close"
    /\ goto(j, "done")
    /\ UNCHANGED <<temp, pdf, pkl, minted, responding, out, seenComplete, fin, table>>

\* leaving the with block flushes and closes the file; return company_id
extract_close(j) ==
    /\ jobs[j].pc = "close"
    /\ pkl' = write(pkl, jobs[j].company_id, pickle_dumps(company_of(j)))
    /\ goto(j, "done")
    /\ UNCHANGED <<temp, pdf, minted, responding, out, seenComplete, fin, table>>

extract_company_data(j) ==
    \/ extract_upload(j)
    \/ extract_generate(j)
    \/ extract_construct(j)
    \/ extract_open(j)
    \/ extract_dump(j)
    \/ extract_close(j)

-----------------------------------------------------------------------------
(* The application *)

EmptyDir == [n \in {} |-> {}]

Init ==
    /\ temp = EmptyDir
    /\ pdf = EmptyDir
    /\ pkl = EmptyDir
    /\ minted = {}
    /\ jobs = <<>>
    /\ responding = {}
    /\ out = NoOut
    /\ seenComplete = {}
    /\ fin = NoFin
    /\ table = {}

Next ==
    \/ \E filename \in Files \cup {NoFilename}, content \in Docs :
         handle_file_select(filename, content)
    \/ \E filename \in Files \cup {NoFilename} : handle_extraction(filename)
    \/ handle_extraction_return
    \/ \E company_id \in Ids : get_status(company_id)
    \/ \E company_id \in Ids : company_page(company_id)
    \/ \E j \in Threads : extract_company_data(j)

Spec == Init /\ [][Next]_vars

-----------------------------------------------------------------------------
(* Scheduling: every started thread is an OS thread that keeps being run, and
   the page that shows "Extracting data..." asks for the status again every
   5 seconds (hx_trigger='every 5s') *)

\* the next statement of thread j, when thread j has been started
thread_step(j) == j \in Threads /\ extract_company_data(j)

Fairness ==
    /\ \A j \in 1..MaxJobs : WF_vars(thread_step(j))
    /\ \A company_id \in Ids : WF_vars(get_status(company_id))

SpecFair == Init /\ [][Next]_vars /\ Fairness

-----------------------------------------------------------------------------
(* Rendering FinancialData on its own: the inputs are drawn from bounded sets *)

Years == {2022 + k : k \in 1..NumYears}

MetricRows ==
    { [revenue |-> None,      ebitda |-> None,     margin |-> None,     debt |-> None],
      [revenue |-> Some(0),   ebitda |-> Some(20), margin |-> None,     debt |-> Some(40)],
      [revenue |-> Some(100), ebitda |-> None,     margin |-> Some(30), debt |-> Some(41)],
      [revenue |-> Some(110), ebitda |-> Some(21), margin |-> Some(31), debt |-> None] }

Points ==
    { [year |-> y, revenue |-> r.revenue, ebitda |-> r.ebitda, margin |-> r.margin,
       debt |-> r.debt, type |-> t] : y \in Years, r \in MetricRows, t \in PointTypes }

PointSeqs == UNION { [1..n -> Points] : n \in 0..MaxPoints }

InitRender ==
    /\ Init!1 /\ Init!2 /\ Init!3 /\ Init!4 /\ Init!5 /\ Init!6 /\ Init!7 /\ Init!8
    /\ \E data \in PointSeqs :
         fin = [pages |-> <<7>>, quality |-> "high", data |-> data, currency |-> "USD m"]
    /\ table = {}

\* Div(self.financials.financial_data): the table is rendered once per page
render ==
    /\ table = {}
    /\ table' = {FinancialData_ft(fin)}
    /\ UNCHANGED <<temp, pdf, pkl, minted, jobs, responding, out, seenComplete, fin>>

NextRender == render

SpecRender == InitRender /\ [][NextRender]_vars

-----------------------------------------------------------------------------
(* Properties *)

thread_of(company_id) == {j \in Threads : jobs[j].company_id = company_id}
running(j) == jobs[j].pc \notin {"done", "failed"}
status_response(company_id, result) ==
    is_status(out) /\ out.id = company_id /\ out.body = result

\* C1: once extract_company_data_status has returned COMPLETE for an
\* identifier, no later status query for that identifier returns RUNNING.
StatusMonotonic ==
    \A i \in seenComplete : ~status_response(i, "RUNNING")

\* a status query returned COMPLETE for an identifier and a later one did again
StatusMonotonicWitness ==
    \E i \in seenComplete : out.route = "status" /\ status_response(i, "COMPLETE")

\* C2: whenever the status of an identifier is COMPLETE, company(identifier)
\* returns the Company record of that identifier and does not fail.
CompleteIsRetrievable ==
    \A i \in Ids :
        extract_company_data_status(i) = "COMPLETE"
            => /\ company(i).ok
               /\ the(company(i).value).id = i

\* C3: a snapshot that has been written is never changed by a later operation,
\* so no identifier ever has two different persisted records.
written(dir, i) == path_exists(dir, i) /\ pickle_load(dir[i]).ok
SnapshotImmutable ==
    [][\A i \in Ids : written(pkl, i) => (path_exists(pkl', i) /\ pkl'[i] = pkl[i])]_vars

\* two snapshots are on disk, each the record of its own identifier and job
SnapshotImmutableWitness ==
    /\ Len(jobs) = 2
    /\ \A j \in Threads :
         /\ jobs[j].pc = "done"
         /\ written(pkl, jobs[j].company_id)
         /\ the(company(jobs[j].company_id).value) = company_of(j)
    /\ out.body = "Company"

\* C4: the submissions that start a job get pairwise distinct identifiers, so at
\* most one job runs per identifier; a step of one job changes neither another
\* job nor another identifier's snapshot, and a job that has not ended can
\* always take its next step whatever the other jobs have done.
JobsIndependent ==
    /\ [](\A j1, j2 \in Threads : j1 # j2 => jobs[j1].company_id # jobs[j2].company_id)
    /\ [](\A j \in Threads : running(j) => ENABLED extract_company_data(j))
    /\ [][\A j \in Threads :
            extract_company_data(j) =>
                /\ \A k \in Threads \ {j} : jobs'[k] = jobs[k]
                /\ \A i \in Ids \ {jobs[j].company_id} :
                     /\ path_exists(pkl', i) = path_exists(pkl, i)
                     /\ path_exists(pkl, i) => pkl'[i] = pkl[i]]_vars

\* one job has failed and the job of another identifier is COMPLETE
JobsIndependentWitness ==
    \E j1, j2 \in Threads :
        /\ jobs[j1].pc = "failed"
        /\ jobs[j2].pc = "done"
        /\ jobs[j1].company_id # jobs[j2].company_id
        /\ status_response(jobs[j2].company_id, "COMPLETE")

\* C5: handle_extraction only starts the worker: the thread it starts is at its
\* first statement, the handler's return is enabled whatever the worker has
\* done, and returning leaves every thread where it is.
SubmissionNonBlocking ==
    /\ [][Len(jobs') # Len(jobs) =>
            /\ jobs' = Append(jobs, jobs'[Len(jobs')])
            /\ jobs'[Len(jobs')].pc = "upload"
            /\ responding' = {jobs'[Len(jobs')].company_id}]_vars
    /\ [](responding # {} => ENABLED handle_extraction_return)
    /\ [][handle_extraction_return => jobs' = jobs]_vars

\* the submit response was RUNNING and the worker has not yet made its first call
SubmissionNonBlockingWitness ==
    /\ out.route = "extract"
    /\ out.body = "RUNNING"
    /\ \E j \in thread_of(out.id) : jobs[j].pc = "upload"

rejection(r) ==
    r.route = "extract" /\ r.body \in {"Error: No file specified", "Error: File not found"}
grade_missing(raw) ==
    \E k \in ScalarFields :
        \/ "quality" \notin DOMAIN raw[k]
        \/ raw[k].quality \notin {"high", "medium", "low"}
SchemaRejection ==
    \A j \in Threads :
        (jobs[j].raw # {} /\ grade_missing(the(jobs[j].raw)))
            => /\ ~path_exists(pkl, jobs[j].company_id)
               /\ jobs[j].pc \in {"construct", "failed"}

\* the response without a quality grade was rejected and a later poll is RUNNING
SchemaRejectionWitness ==
    \E j \in Threads :
        /\ jobs[j].raw = {RespNoQuality}
        /\ jobs[j].pc = "failed"
        /\ status_response(jobs[j].company_id, "RUNNING")
        /\ out.route = "status"

\* C8: the status query returns COMPLETE exactly when the snapshot file of the
\* identifier exists and RUNNING otherwise, and changes neither the snapshot
\* store, the input-document store nor any job.
StatusIsPureRead ==
    [][\A i \in Ids :
         get_status(i) =>
            /\ out'.body = IF path_exists(pkl, i) THEN "COMPLETE" ELSE "RUNNING"
            /\ out'.id = i
            /\ UNCHANGED <<temp, pdf, pkl, minted, jobs, responding>>]_vars

\* the query answered COMPLETE a second time while another job was running
StatusIsPureReadWitness ==
    /\ out.route = "status"
    /\ out.body = "COMPLETE"
    /\ out.id \in seenComplete
    /\ \E j \in Threads : running(j) /\ jobs[j].company_id # out.id

\* C9: the rendered years are the ascending set of the points' years, and each
\* metric's cell of a year is the text of the first non-null value among that
\* year's points in stored order, or the placeholder when there is none.
Metrics == {"revenue", "ebitda", "margin", "debt"}
FirstMatchDisplay ==
    table # {} =>
        LET t == the(table)
            d == fin.data
        IN  /\ {t.years[k] : k \in 1..Len(t.years)} = {d[i].year : i \in 1..Len(d)}
            /\ \A k \in 1..(Len(t.years) - 1) : t.years[k] < t.years[k + 1]
            /\ \A m \in Metrics : \A k \in 1..Len(t.years) :
                 LET hits == {i \in 1..Len(d) : d[i].year = t.years[k] /\ d[i][m] # None}
                 IN  /\ Len(t[m]) = Len(t.years)
                     /\ hits = {} => t[m][k] = "-"
                     /\ hits # {} =>
                          \E i \in hits :
                              /\ \A h \in hits : i <= h
                              /\ t[m][k] = str_float(the(d[i][m]))

\* two points of one year with different revenues, the first one is shown;
\* and a later year stored before an earlier one
FirstMatchDisplayWitness ==
    /\ table # {}
    /\ Len(fin.data) = 3
    /\ fin.data[1].year = 2024
    /\ fin.data[2].year = 2023 /\ fin.data[2].revenue = Some(0)
    /\ fin.data[3].year = 2023 /\ fin.data[3].revenue = Some(110)
    /\ the(table).years = <<2023, 2024>>
    /\ the(table).revenue[1] = "0.0"

\* C10: a job that has failed never has a snapshot, its status is RUNNING in
\* every later state, and it stays failed.
SilentFailure ==
    /\ [](\A j \in Threads :
            jobs[j].pc = "failed" =>
                /\ ~path_exists(pkl, jobs[j].company_id)
                /\ extract_company_data_status(jobs[j].company_id) = "RUNNING"
                /\ ~status_response(jobs[j].company_id, "COMPLETE")
                /\ jobs[j].company_id \notin seenComplete)
    /\ [][\A j \in Threads : jobs[j].pc = "failed" => jobs'[j].pc = "failed"]_vars

\* a job failed at the external call and a later status query answered RUNNING
SilentFailureWitness ==
    \E j \in Threads :
        /\ jobs[j].pc = "failed"
        /\ jobs[j].raw = {}
        /\ out.route = "status"
        /\ status_response(jobs[j].company_id, "RUNNING")

\* C11: under fair scheduling of the started threads and of the status polls,
\* every job for which the external capability has returned a response that
\* validates gets its snapshot written, and a status query for its identifier
\* answers COMPLETE: from some point on this is so for every such job.
validated(j) == jobs[j].parsed # None
observed_complete(i) == status_response(i, "COMPLETE") \/ i \in seenComplete
EventualCompletion ==
    <>[](\A j \in Threads :
            validated(j) => /\ written(pkl, jobs[j].company_id)
                            /\ observed_complete(jobs[j].company_id))

\* the job of a validated response is done, its snapshot is the job's record
\* and the poll of its identifier answered COMPLETE
EventualCompletionWitness ==
    \E j \in Threads :
        /\ jobs[j].parsed # None
        /\ jobs[j].pc = "done"
        /\ the(company(jobs[j].company_id).value) = company_of(j)
        /\ out.route = "status"
        /\ status_response(jobs[j].company_id, "COMPLETE")
        /\ \E k \in Threads : jobs[k].pc = "failed"

====
